---------------------------- MODULE Spec2Model ----------------------------
(***************************************************************************)
(* Wave-table oscillator of src/src/main.rs with its shared frequency      *)
(* controller (Arc<Mutex<f32>>), the audio context that pulls samples and  *)
(* the context that writes the controller.                                 *)
(*                                                                         *)
(* Numbers.  The f32 fields are held as exact fixed-point integers:        *)
(*   frequency                 in Hz (whole numbers),                      *)
(*   index, index_increment    in units of 1/sample_rate table steps,      *)
(*   wave_table entries        in units of 1/TableOne,                     *)
(*   a returned sample         in units of 1/(10*sample_rate*TableOne).    *)
(* In these units  frequency * len / sample_rate  is the integer           *)
(* frequency * len, so the arithmetic of get_sample is exact; f32 rounding,*)
(* infinities and NaN are not represented.  The operators whose Rust       *)
(* meaning differs from the mathematical one are modelled by what Rust     *)
(* does: `%` on f32 is the truncated remainder (sign of the dividend),     *)
(* `as usize` truncates toward zero and saturates (negative gives 0), and  *)
(* indexing a Vec out of range panics.                                     *)
(***************************************************************************)
EXTENDS Integers, Sequences, FiniteSets, TLC

VARIABLES
    self_sample_rate, \* WaveTableOscillator.sample_rate
    self_wave_table,  \* WaveTableOscillator.wave_table
    frequency,        \* the f32 inside Arc<Mutex<f32>> (shared)
    lock,             \* holder of the mutex: "free", "audio" or "input"
    index,            \* WaveTableOscillator.index (the phase)
    index_increment,  \* WaveTableOscillator.index_increment
    pcA,              \* position of the audio context inside next/get_sample
    freq_read,        \* *freq as read by update_frequency in the current call
    out,              \* value returned by the latest next(): <<"None">> before the first
    pcI,              \* position of the writing context (lock / assign / unlock)
    pending,          \* the value the writing context is about to store
    nsamples,         \* history: number of get_sample calls completed
    last,             \* history: locals of the latest completed get_sample call
    lastWrite,        \* history: value of the latest completed write
    burst,            \* history: writes completed since update_frequency last read
    coalesced,        \* history: writes completed before the latest read, since the one before
    everNonZero,      \* history: a non-zero value has been stored in frequency
    pcM,              \* position of main from line 215 on
    code,             \* the KeyCode bound by the match of line 220
    raw_mode,         \* the terminal is in raw mode
    result,           \* what main returned: "running" until it returns
    events,           \* terminal events not yet read, oldest first
    delivered,        \* history: number of events the terminal delivered
    nkeys,            \* history: key events other than Esc read by the loop
    nwrites,          \* history: stores completed by the loop
    poisoned,         \* the mutex is poisoned: lock() returns Err
    lock_failed       \* history: the context's latest lock() returned Err

(* The oscillator, its controller, the two contexts' positions in one store
   and one get_sample, and their history. *)
oscVars == <<self_sample_rate, self_wave_table, frequency, lock, index,
             index_increment, pcA, freq_read, out, pcI, pending, nsamples,
             last, lastWrite, burst, coalesced, everNonZero>>

(* main from enable_raw_mode on, the terminal, and the state of the mutex. *)
mainVars == <<pcM, code, raw_mode, result, events, delivered, nkeys, nwrites,
              poisoned, lock_failed>>

vars == <<oscVars, mainVars>>

---------------------------------------------------------------------------
(* Bounds of the model *)

MaxSamples == 4          \* get_sample calls explored by Spec
MaxBurst == 3            \* consecutive writes explored between two reads
ScenarioCalls == 101     \* get_sample calls explored by ScenarioSpec
TableOne == 100          \* fixed-point value of the amplitude 1.0
MaxEvents == 3           \* terminal events delivered in MainSpec
MainSamples == 2         \* get_sample calls explored by the specifications of main

(* Values the writing context stores.  The handle returned by
   get_frequency_control accepts any f32: zero, an audible pitch, a value
   above the sample rate and a negative value. *)
Freqs == {0, 440, 50000, 0 - 22050}

ScenarioFreqs == {440}

(* Terminal events: key events by their KeyCode (Esc; ';', which is in
   main's table; BackTab, which is not) and one event that is no key event. *)
KeyCodes == {"Esc", ";", "BackTab"}

TerminalEvents == KeyCodes \cup {"Resize"}

(* Addresses the local `key` of line 222 can have: a KeyCode is 4-aligned. *)
KeyAddrs == {1000000, 1000996}

None == <<"None">>
NoValue == "NoValue"

---------------------------------------------------------------------------
(* Construction: main, lines 92-101 (table of 64 entries, 44100 Hz): the
   arguments of WaveTableOscillator::new. *)

sample_rate == 44100

(* wave_table[i] = sin(2*pi*i/64), i = 0..63, rounded to 1/TableOne.
   Sequences are 1-based: entry i of the Vec is wave_table[i + 1]. *)
wave_table ==
    << 0, 10, 20, 29, 38, 47, 56, 63, 71, 77, 83, 88, 92, 96, 98, 100,
       100, 100, 98, 96, 92, 88, 83, 77, 71, 63, 56, 47, 38, 29, 20, 10,
       0, -10, -20, -29, -38, -47, -56, -63, -71, -77, -83, -88, -92, -96, -98, -100,
       -100, -100, -98, -96, -92, -88, -83, -77, -71, -63, -56, -47, -38, -29, -20, -10 >>

(* self.wave_table.len() *)
TableLen == Len(self_wave_table)

(* One table step in the fixed-point unit of index. *)
One == sample_rate

(* wave_table.len() as f32, in the unit of index. *)
TableLenF == TableLen * One

---------------------------------------------------------------------------
(* f32 operators as Rust defines them *)

Abs(x) == IF x < 0 THEN 0 - x ELSE x

(* a % n on f32: remainder of the truncated division, sign of a. *)
FRem(a, n) == IF a >= 0 THEN a % n ELSE 0 - ((0 - a) % n)

(* Variant: a cast that floors without saturating. *)
AsUsizeFloor(x) == x \div One

(* x as usize: truncation toward zero, saturating, so a negative x gives 0. *)
AsUsize(x) == IF x < 0 THEN 0 ELSE x \div One

(* Vec indexing: in range or panic. *)
InBounds(i) == i >= 0 /\ i < TableLen

---------------------------------------------------------------------------
(* WaveTableOscillator *)

(* Variant: the table length is left out of the increment. *)
IndexIncrementNoLen(freq) == freq * (One \div self_sample_rate)

(* update_frequency, line 36: *freq * len / sample_rate.  With index counted
   in 1/sample_rate steps the quotient is exact. *)
IndexIncrement(freq) == freq * TableLen * (One \div self_sample_rate)

(* Variant: a non-zero increment is kept instead of being recomputed. *)
update_frequency_cached(old, freq) == IF old # 0 THEN old ELSE IndexIncrement(freq)

(* update_frequency, lines 35-37: the increment stored when lock() gave the
   value freq; old is the increment left by the previous call. *)
update_frequency(old, freq) == IndexIncrement(freq)

(* Variant: the silence test is missing. *)
IsSilentNever(inc) == FALSE

(* Variant: the silence test is `<= 0.0`. *)
IsSilentNonPositive(inc) == inc <= 0

(* get_sample, line 43 *)
IsSilent(inc) == inc = 0

(* lerp, lines 54-58 *)
truncated_index(idx) == AsUsize(idx)

next_index(idx) == (truncated_index(idx) + 1) % TableLen

next_index_weight(idx) == idx - truncated_index(idx) * One

truncated_index_weight(idx) == One - next_index_weight(idx)

(* lerp, lines 60-61, in units of 1/(sample_rate*TableOne); both indices are
   in range where it is evaluated. *)
lerp(idx) ==
    truncated_index_weight(idx) * self_wave_table[truncated_index(idx) + 1]
        + next_index_weight(idx) * self_wave_table[next_index(idx) + 1]

(* Variant: the wrap is missing. *)
AdvanceNoWrap(idx, inc) == idx + inc

(* Variant: the phase restarts from the increment instead of accumulating. *)
AdvanceReset(idx, inc) == FRem(inc, TableLenF)

(* get_sample, lines 48-49: index += index_increment; index %= len. *)
Advance(idx, inc) == FRem(idx + inc, TableLenF)

(* get_sample, line 50: sample * 0.3, in units of 1/(10*sample_rate*TableOne). *)
Attenuate(sample) == 3 * sample

(* Variant: a store that does not replace a non-zero value. *)
StoreSticky(old, value) == IF old # 0 THEN old ELSE value

(* main, lines 226 and 231: *freq = value replaces the stored value old. *)
Store(old, value) == value

(* Iterator::next, line 87 *)
Some(v) == <<"Some", v>>

(* The fixed-point value of the amplitude 0.3 in the unit of a returned sample. *)
Amp03 == 3 * One * TableOne

NoCall == [freq |-> 0, before |-> 0, silent |-> TRUE, i0 |-> 0, i1 |-> 0, run |-> 0]

RunLength(f) == IF last.run > 0 /\ last.freq = f THEN last.run + 1 ELSE 1

---------------------------------------------------------------------------
(* State after WaveTableOscillator::new (lines 20-28) and sink.append, main
   about to enable raw mode (line 215) *)

Init ==
    /\ self_sample_rate = sample_rate
    /\ self_wave_table = wave_table
    /\ frequency = 0
    /\ lock = "free"
    /\ index = 0
    /\ index_increment = 0
    /\ pcA = "idle"
    /\ freq_read = 0
    /\ out = None
    /\ pcI = "idle"
    /\ pending = NoValue
    /\ nsamples = 0
    /\ last = NoCall
    /\ lastWrite = 0
    /\ burst = 0
    /\ coalesced = 0
    /\ everNonZero = FALSE
    /\ pcM = "enable"
    /\ code = NoValue
    /\ raw_mode = FALSE
    /\ result = "running"
    /\ events = << >>
    /\ delivered = 0
    /\ nkeys = 0
    /\ nwrites = 0
    /\ poisoned = FALSE
    /\ lock_failed = [audio |-> FALSE, input |-> FALSE]

---------------------------------------------------------------------------
(* Audio context: Iterator::next -> get_sample -> update_frequency *)

(* Variant: a lock() that does not wait for the mutex to be free. *)
AudioLockNoWait(max) ==
    /\ pcA = "idle"
    /\ nsamples < max
    /\ lock' = "audio"
    /\ pcA' = "locked"
    /\ UNCHANGED <<frequency, index, index_increment, freq_read, out, pcI,
                   pending, nsamples, last, lastWrite, burst, everNonZero,
                   coalesced,
                   self_sample_rate, self_wave_table>>

(* line 35: self.frequency.lock() blocks until the mutex is free. *)
AudioLock(max) ==
    /\ pcA = "idle"
    /\ nsamples < max
    /\ lock = "free"
    /\ lock' = "audio"
    /\ pcA' = "locked"
    /\ UNCHANGED <<frequency, index, index_increment, freq_read, out, pcI,
                   pending, nsamples, last, lastWrite, burst, everNonZero,
                   coalesced,
                   self_sample_rate, self_wave_table>>

(* line 36: read *freq and store the increment, the guard still held. *)
AudioUpdate ==
    /\ pcA = "locked"
    /\ freq_read' = frequency
    /\ index_increment' = update_frequency(index_increment, frequency)
    /\ coalesced' = burst
    /\ burst' = 0
    /\ pcA' = "updated"
    /\ UNCHANGED <<frequency, lock, index, out, pcI, pending, nsamples, last,
                   lastWrite, everNonZero,
                   self_sample_rate, self_wave_table>>

(* line 37: the guard is dropped at the end of the if-let block. *)
AudioUnlock ==
    /\ pcA = "updated"
    /\ lock' = "free"
    /\ pcA' = "decide"
    /\ UNCHANGED <<frequency, index, index_increment, freq_read, out, pcI,
                   pending, nsamples, last, lastWrite, burst, everNonZero,
                   coalesced,
                   self_sample_rate, self_wave_table>>

(* lines 43-45: the silent branch returns 0.0 and leaves index alone. *)
AudioSilent ==
    /\ pcA = "decide"
    /\ IsSilent(index_increment)
    /\ out' = Some(0)
    /\ last' = [freq |-> freq_read, before |-> index, silent |-> TRUE,
                i0 |-> 0, i1 |-> 0, run |-> RunLength(freq_read)]
    /\ nsamples' = nsamples + 1
    /\ pcA' = "idle"
    /\ UNCHANGED <<frequency, lock, index, index_increment, freq_read, pcI,
                   pending, lastWrite, burst, everNonZero,
                   coalesced,
                   self_sample_rate, self_wave_table>>

(* lines 47-50 with lerp, lines 53-62: interpolate at the current index, then
   advance and wrap.  An index outside the Vec panics in lerp, before the
   advance. *)
AudioSound ==
    /\ pcA = "decide"
    /\ ~IsSilent(index_increment)
    /\ last' = [freq |-> freq_read, before |-> index, silent |-> FALSE,
                i0 |-> truncated_index(index), i1 |-> next_index(index),
                run |-> RunLength(freq_read)]
    /\ IF InBounds(truncated_index(index)) /\ InBounds(next_index(index))
       THEN /\ out' = Some(Attenuate(lerp(index)))
            /\ index' = Advance(index, index_increment)
            /\ nsamples' = nsamples + 1
            /\ pcA' = "idle"
       ELSE /\ pcA' = "panic"
            /\ UNCHANGED <<out, index, nsamples>>
    /\ UNCHANGED <<frequency, lock, index_increment, freq_read, pcI, pending,
                   lastWrite, burst, everNonZero,
                   coalesced,
                   self_sample_rate, self_wave_table>>

---------------------------------------------------------------------------
(* Writing context: one store into the controller, main lines 225-227 and
   230-232: lock, assign through the guard, drop the guard. *)

InputLock(values) ==
    /\ pcI = "idle"
    /\ burst < MaxBurst
    /\ lock = "free"
    /\ lock' = "input"
    /\ pcI' = "locked"
    /\ \E f \in values : pending' = f
    /\ UNCHANGED <<frequency, index, index_increment, pcA, freq_read, out,
                   nsamples, last, lastWrite, burst, everNonZero,
                   coalesced,
                   self_sample_rate, self_wave_table>>

(* Variant: a store that also restarts the phase. *)
InputAssignRestart ==
    /\ pcI = "locked"
    /\ pcI' = "assigned"
    /\ frequency' = Store(frequency, pending)
    /\ everNonZero' = (everNonZero \/ Store(frequency, pending) # 0)
    /\ index' = 0
    /\ UNCHANGED <<lock, index_increment, pcA, freq_read, out, pending,
                   nsamples, last, lastWrite, burst,
                   coalesced,
                   self_sample_rate, self_wave_table>>

(* lines 226 and 231: *freq = value, through the guard. *)
InputAssign ==
    /\ pcI = "locked"
    /\ pcI' = "assigned"
    /\ frequency' = Store(frequency, pending)
    /\ everNonZero' = (everNonZero \/ Store(frequency, pending) # 0)
    /\ UNCHANGED <<lock, index, index_increment, pcA, freq_read, out, pending,
                   nsamples, last, lastWrite, burst,
                   coalesced,
                   self_sample_rate, self_wave_table>>

InputUnlock ==
    /\ pcI = "assigned"
    /\ pcI' = "idle"
    /\ lock' = "free"
    /\ lastWrite' = pending
    /\ burst' = burst + 1
    /\ pending' = NoValue
    /\ UNCHANGED <<frequency, index, index_increment, pcA, freq_read, out,
                   nsamples, last, everNonZero,
                   coalesced,
                   self_sample_rate, self_wave_table>>

---------------------------------------------------------------------------
(* main, lines 110-246: the key table, raw mode and the input loop *)

(* lines 110-210: the entry of key_frequencies for the modelled key ';'
   (line 165). *)
key_frequencies == (";" :> 440)

(* Variant: the fallback without its base of 200. *)
FallbackNoBase(addr) == addr % 1000

(* Variant: the fallback without the reduction of the address. *)
FallbackNoMod(addr) == 200 + addr

(* line 231: 200.0 + (addr_of!(key) as usize % 1000) as f32 *)
Fallback(addr) == 200 + (addr % 1000)

(* Variant: no key leaves the loop. *)
IsExitNever(k) == FALSE

(* line 221: KeyCode::Esc => break *)
IsExit(k) == k = "Esc"

(* lines 223-232: the values the store for key k may write. *)
StoredFor(k) ==
    IF k \in DOMAIN key_frequencies
    THEN {key_frequencies[k]}
    ELSE {Fallback(a) : a \in KeyAddrs}

(* The terminal delivers an event. *)
Deliver ==
    /\ pcM # "returned"
    /\ delivered < MaxEvents
    /\ \E e \in TerminalEvents : events' = Append(events, e)
    /\ delivered' = delivered + 1
    /\ UNCHANGED <<pcM, code, raw_mode, result, nkeys, nwrites, poisoned,
                   lock_failed>>
    /\ UNCHANGED oscVars

(* line 215: enable_raw_mode()? *)
MainEnableRaw ==
    /\ pcM = "enable"
    /\ \/ /\ raw_mode' = TRUE
          /\ pcM' = "poll"
          /\ UNCHANGED result
       \/ /\ result' = "ErrEnable"
          /\ pcM' = "returned"
          /\ UNCHANGED raw_mode
    /\ UNCHANGED <<code, events, delivered, nkeys, nwrites, poisoned,
                   lock_failed>>
    /\ UNCHANGED oscVars

(* line 218: event::poll(10 ms)? is true when an event is waiting, false
   after the timeout, or an error, which returns from main. *)
MainPoll ==
    /\ pcM = "poll"
    /\ \/ /\ events # << >>
          /\ pcM' = "read"
          /\ UNCHANGED result
       \/ /\ events = << >>
          /\ pcM' = "sleep"
          /\ UNCHANGED result
       \/ /\ result' = "ErrPoll"
          /\ pcM' = "returned"
    /\ UNCHANGED <<code, raw_mode, events, delivered, nkeys, nwrites,
                   poisoned, lock_failed>>
    /\ UNCHANGED oscVars

(* lines 219-222: event::read()? and the match: Esc breaks, another key is
   bound to `key`, an event that is no key event is skipped; an error
   returns from main. *)
MainRead ==
    /\ pcM = "read"
    /\ \/ /\ events' = Tail(events)
          /\ IF Head(events) \in KeyCodes
             THEN IF IsExit(Head(events))
                  THEN /\ pcM' = "disable"
                       /\ UNCHANGED <<code, nkeys>>
                  ELSE /\ pcM' = "store"
                       /\ code' = Head(events)
                       /\ nkeys' = nkeys + 1
             ELSE /\ pcM' = "sleep"
                  /\ UNCHANGED <<code, nkeys>>
          /\ UNCHANGED result
       \/ /\ result' = "ErrRead"
          /\ pcM' = "returned"
          /\ UNCHANGED <<code, events, nkeys>>
    /\ UNCHANGED <<raw_mode, delivered, nwrites, poisoned, lock_failed>>
    /\ UNCHANGED oscVars

(* lines 225 and 230: frequency_control.lock() gives the guard. *)
MainLock ==
    /\ pcM = "store"
    /\ ~poisoned
    /\ InputLock(StoredFor(code))
    /\ pcM' = "storing"
    /\ lock_failed' = [lock_failed EXCEPT !.input = FALSE]
    /\ UNCHANGED <<code, raw_mode, result, events, delivered, nkeys, nwrites,
                   poisoned>>

(* lines 226 and 231: *freq = ... *)
MainAssign ==
    /\ pcM = "storing"
    /\ InputAssign
    /\ UNCHANGED mainVars

(* lines 227 and 232: the guard is dropped; the loop goes on to its sleep. *)
MainUnlock ==
    /\ pcM = "storing"
    /\ InputUnlock
    /\ pcM' = "sleep"
    /\ nwrites' = nwrites + 1
    /\ UNCHANGED <<code, raw_mode, result, events, delivered, nkeys, poisoned,
                   lock_failed>>

(* line 240: thread::sleep(1 ms), then the next iteration. *)
MainSleep ==
    /\ pcM = "sleep"
    /\ pcM' = "poll"
    /\ UNCHANGED <<code, raw_mode, result, events, delivered, nkeys, nwrites,
                   poisoned, lock_failed>>
    /\ UNCHANGED oscVars

(* lines 244-246: disable_raw_mode()?, then Ok(()). *)
MainDisableRaw ==
    /\ pcM = "disable"
    /\ \/ /\ raw_mode' = FALSE
          /\ result' = "Ok"
       \/ /\ result' = "ErrDisable"
          /\ UNCHANGED raw_mode
    /\ pcM' = "returned"
    /\ UNCHANGED <<code, events, delivered, nkeys, nwrites, poisoned,
                   lock_failed>>
    /\ UNCHANGED oscVars

---------------------------------------------------------------------------
(* A poisoned mutex: lock() returns Err.  Neither thread of the program can
   panic while it holds the guard (lines 36, 226 and 231 cannot panic), so
   the poison comes from another holder of the handle returned by
   get_frequency_control (line 30) that panicked with the guard held. *)

Poison ==
    /\ ~poisoned
    /\ lock = "free"
    /\ poisoned' = TRUE
    /\ UNCHANGED <<pcM, code, raw_mode, result, events, delivered, nkeys,
                   nwrites, lock_failed>>
    /\ UNCHANGED oscVars

(* lines 35-37 when lock() is Err: the if-let does not match, the block is
   skipped and get_sample goes on to line 43 with the increment of the
   previous call. *)
AudioLockErr ==
    /\ pcA = "idle"
    /\ nsamples < MainSamples
    /\ poisoned
    /\ lock = "free"
    /\ pcA' = "decide"
    /\ lock_failed' = [lock_failed EXCEPT !.audio = TRUE]
    /\ UNCHANGED <<pcM, code, raw_mode, result, events, delivered, nkeys,
                   nwrites, poisoned>>
    /\ UNCHANGED <<frequency, lock, index, index_increment, freq_read, out,
                   pcI, pending, nsamples, last, lastWrite, burst,
                   everNonZero, coalesced,
                   self_sample_rate, self_wave_table>>

(* lines 225-227 and 230-232 when lock() is Err: the if-let does not match,
   nothing is stored and the loop goes on to its sleep. *)
MainLockErr ==
    /\ pcM = "store"
    /\ poisoned
    /\ lock = "free"
    /\ pcM' = "sleep"
    /\ lock_failed' = [lock_failed EXCEPT !.input = TRUE]
    /\ UNCHANGED <<code, raw_mode, result, events, delivered, nkeys, nwrites,
                   poisoned>>
    /\ UNCHANGED oscVars

---------------------------------------------------------------------------
(* Specifications *)

(* The oscillator and any holder of the controller handle. *)
Next ==
    \/ AudioLock(MaxSamples) /\ UNCHANGED mainVars
    \/ AudioUpdate /\ UNCHANGED mainVars
    \/ AudioUnlock /\ UNCHANGED mainVars
    \/ AudioSilent /\ UNCHANGED mainVars
    \/ AudioSound /\ UNCHANGED mainVars
    \/ InputLock(Freqs) /\ UNCHANGED mainVars
    \/ InputAssign /\ UNCHANGED mainVars
    \/ InputUnlock /\ UNCHANGED mainVars

Spec == Init /\ [][Next]_vars

(* The end-to-end scenario: the only value ever written is 440 Hz (the key
   ';' of main's table, line 165). *)
ScenarioNext ==
    \/ AudioLock(ScenarioCalls) /\ UNCHANGED mainVars
    \/ AudioUpdate /\ UNCHANGED mainVars
    \/ AudioUnlock /\ UNCHANGED mainVars
    \/ AudioSilent /\ UNCHANGED mainVars
    \/ AudioSound /\ UNCHANGED mainVars
    \/ InputLock(ScenarioFreqs) /\ UNCHANGED mainVars
    \/ InputAssign /\ UNCHANGED mainVars
    \/ InputUnlock /\ UNCHANGED mainVars

ScenarioSpec == Init /\ [][ScenarioNext]_vars

(* The complete program: the audio context and main's input loop. *)
MainNext ==
    \/ AudioLock(MainSamples) /\ UNCHANGED mainVars
    \/ AudioUpdate /\ UNCHANGED mainVars
    \/ AudioUnlock /\ UNCHANGED mainVars
    \/ AudioSilent /\ UNCHANGED mainVars
    \/ AudioSound /\ UNCHANGED mainVars
    \/ Deliver
    \/ MainEnableRaw
    \/ MainPoll
    \/ MainRead
    \/ MainLock
    \/ MainAssign
    \/ MainUnlock
    \/ MainSleep
    \/ MainDisableRaw

MainSpec == Init /\ [][MainNext]_vars

(* Scheduling: each thread that can take a step eventually takes one (main's
   poll and sleep are bounded waits), a critical section once entered is
   left, and a thread that finds the mutex free again and again eventually
   gets it. *)
MainLoopStep ==
    \/ MainEnableRaw
    \/ MainPoll
    \/ MainRead
    \/ MainAssign
    \/ MainUnlock
    \/ MainSleep
    \/ MainDisableRaw

AudioInnerStep ==
    (AudioUpdate \/ AudioUnlock \/ AudioSilent \/ AudioSound)
        /\ UNCHANGED mainVars

(* Every step of either thread moves that thread's position. *)
liveVars == <<pcM, pcI, pcA>>

MainLiveSpec ==
    /\ Init /\ [][MainNext]_vars
    /\ WF_liveVars(MainLoopStep)
    /\ WF_liveVars(AudioInnerStep)
    /\ SF_liveVars(MainLock)
    /\ SF_liveVars(AudioLock(MainSamples) /\ UNCHANGED mainVars)

(* The complete program with a controller whose mutex can be poisoned. *)
FaultNext ==
    \/ AudioLock(MainSamples) /\ ~poisoned /\ UNCHANGED mainVars
    \/ AudioLockErr
    \/ AudioUpdate /\ UNCHANGED mainVars
    \/ AudioUnlock /\ UNCHANGED mainVars
    \/ AudioSilent /\ UNCHANGED mainVars
    \/ AudioSound /\ UNCHANGED mainVars
    \/ Poison
    \/ Deliver
    \/ MainEnableRaw
    \/ MainPoll
    \/ MainRead
    \/ MainLock
    \/ MainLockErr
    \/ MainAssign
    \/ MainUnlock
    \/ MainSleep
    \/ MainDisableRaw

FaultSpec == Init /\ [][FaultNext]_vars

---------------------------------------------------------------------------
(* Steps of the audio context named by the properties below *)

(* update_frequency stores the increment. *)
UpdateStep == pcA = "locked" /\ pcA' = "updated"

(* get_sample leaves line 43: it returns or panics. *)
ReturnStep == pcA = "decide" /\ pcA' # "decide"

(* a and b denote the same table position. *)
Congruent(a, b) == (a - b) % TableLenF = 0

---------------------------------------------------------------------------
(* C1: between get_sample calls the phase lies in [0, N), whatever values
   (positive, zero, negative, above the sample rate) were written. *)
C1_PhaseInRange ==
    pcA = "idle" => (index >= 0 /\ index < TableLenF)

(* C2: a get_sample call that reads frequency 0 returns exactly 0.0 and
   leaves the phase unchanged; until a non-zero value has been stored the
   phase stays 0 and every returned sample is 0.0. *)
C2_Silence ==
    /\ [](~everNonZero => (index = 0 /\ out \in {None, Some(0)}))
    /\ [][(ReturnStep /\ freq_read = 0)
            => (pcA' = "idle" /\ out' = Some(0) /\ index' = index)]_vars

(* C2 witness: a silent call after sounding, the phase reached so far kept. *)
C2_Witness ==
    /\ pcA = "idle"
    /\ last.run > 0 /\ last.silent /\ last.freq = 0
    /\ index # 0 /\ index = last.before
    /\ out = Some(0)

(* C3: every returned sample has absolute value at most 0.3. *)
C3_BoundedAmplitude ==
    out # None => Abs(out[2]) <= Amp03

(* C4: update_frequency computes the increment from the latest write that
   completed (released the lock) before it acquired the lock, never from an
   earlier value. *)
C4_Latency ==
    [][UpdateStep => index_increment' = IndexIncrement(lastWrite)]_vars

(* C4 witness: a call has read 440 Hz, written after the previous call read
   another value. *)
C4_Witness ==
    /\ pcA = "updated"
    /\ lastWrite = 440 /\ freq_read = 440
    /\ last.run > 0 /\ last.freq # 440
    /\ index_increment = IndexIncrement(440)

(* C5: a write never changes the phase; the phase changes only when
   get_sample adds that call's increment and wraps; so whatever is written
   after a sounding call, the phase the next call sees is the phase before
   that call plus increment(f1), wrapped. *)
C5_PhaseContinuity ==
    /\ []((last.run > 0 /\ pcA # "panic")
            => /\ Abs(index) < TableLenF
               /\ IF last.silent
                  THEN index = last.before
                  ELSE Congruent(index, last.before + IndexIncrement(last.freq)))
    /\ [][/\ (pcI' # pcI => index' = index)
          /\ (index' # index
                => /\ ReturnStep
                   /\ Congruent(index', index + index_increment)
                   /\ index_increment = IndexIncrement(freq_read))]_vars

(* C5 witness: two samples at 440 Hz, then the switch to 50000 Hz has been
   read and the phase is still 2 * increment(440). *)
C5_Witness ==
    /\ pcA = "decide"
    /\ last.freq = 440 /\ last.run = 2 /\ nsamples = 2
    /\ freq_read = 50000
    /\ index = 2 * IndexIncrement(440)

(* Scenario of C6: exactly 100 get_sample calls have completed from the
   initial phase 0 and every one of them read 440 Hz. *)
HeldAt440For100 ==
    /\ pcA = "idle"
    /\ nsamples = 100
    /\ last.run = 100 /\ last.freq = 440

(* C6 as stated: held at 440 Hz from phase 0, the increment is
   440*64/44100, within 1e-3 of 0.6395, and after exactly 100 calls the phase
   is within 1e-3 of 63.95.  (index and index_increment count 1/sample_rate
   steps, so the value x/sample_rate is the integer x.) *)
C6_EndToEndAsStated ==
    HeldAt440For100
        => /\ index_increment = 440 * TableLen
           /\ Abs(10000 * index_increment - 6395 * One) <= 10 * One
           /\ Abs(100 * index - 6395 * One) * 10 <= One

(* C6 amended: the increment is 440*64/44100 (0.63855, within 1e-3 of
   0.6395) and after exactly 100 calls the phase is 100*440*64/44100, within
   1e-3 of 63.855. *)
C6_EndToEnd ==
    HeldAt440For100
        => /\ index_increment = 440 * TableLen
           /\ Abs(10000 * index_increment - 6395 * One) <= 10 * One
           /\ index = 100 * 440 * TableLen
           /\ Abs(200 * index - 12771 * One) * 5 <= One

(* C6 witness: 100 calls completed, every one of them having read 440 Hz. *)
C6_Witness ==
    HeldAt440For100 /\ index > 63 * One

(* C7: get_sample always completes with a value: it never panics, both
   indices used by lerp are within 0..N-1, a call past line 43 can always
   take one of its two branches, and next has yielded Some(sample). *)
C7_Total ==
    /\ pcA # "panic"
    /\ (last.run > 0 /\ ~last.silent) => (InBounds(last.i0) /\ InBounds(last.i1))
    /\ pcA = "decide" => ENABLED (AudioSilent \/ AudioSound)
    /\ nsamples > 0 => (out # None /\ out[1] = "Some")

(* C7 witness: a sounding call completed from a negative phase with a
   frequency above the sample rate. *)
C7_Witness ==
    /\ pcA = "idle"
    /\ last.run > 0 /\ ~last.silent
    /\ last.before < 0 /\ last.freq > sample_rate
    /\ out = Some(Attenuate(lerp(last.before)))

(* C8: the writer never waits for a reader (with the mutex free it can start
   the next write however many writes are still unread), and a call that
   follows several completed writes uses only the most recent one. *)
C8_LastWriteWins ==
    /\ []((pcI = "idle" /\ lock = "free" /\ burst < MaxBurst)
            => ENABLED InputLock(Freqs))
    /\ [][(UpdateStep /\ burst >= 2)
            => /\ freq_read' = lastWrite
               /\ index_increment' = IndexIncrement(lastWrite)]_vars
    /\ [](pcA = "decide" => index_increment = IndexIncrement(freq_read))

(* C8 witness: after a call at 440 Hz three writes completed with no read in
   between, and the next call has read only the last one, -22050 Hz. *)
C8_Witness ==
    /\ pcA = "decide"
    /\ coalesced = 3
    /\ last.run > 0 /\ last.freq = 440
    /\ freq_read = 0 - 22050
    /\ index_increment = IndexIncrement(0 - 22050)

(* C9: every call recomputes the increment as frequency * N / sample_rate
   (the integer frequency * N in 1/sample_rate steps) from the value the
   controller holds during that call; the increment that advances the phase
   is never one left by an earlier call. *)
C9_Recomputed ==
    /\ [][UpdateStep => index_increment' = frequency * TableLen]_vars
    /\ [][(ReturnStep /\ index' # index)
            => index' = FRem(index + freq_read * TableLen, TableLenF)]_vars

(* C9 witness: the increment left by a call at 50000 Hz has been replaced by
   the one for 440 Hz. *)
C9_Witness ==
    /\ pcA = "decide"
    /\ last.run > 0 /\ last.freq = 50000
    /\ freq_read = 440
    /\ index_increment = 440 * TableLen

(* C10: a call takes the silent branch (0.0 returned, phase kept) if and
   only if the frequency it read is zero, whatever the phase, the previous
   mode and the earlier frequencies. *)
C10_TwoModes ==
    [][ReturnStep
         => /\ pcA' = "idle"
            /\ last'.freq = freq_read
            /\ last'.silent <=> (freq_read = 0)
            /\ last'.silent => (out' = Some(0) /\ index' = index)
            /\ ~last'.silent => out' = Some(Attenuate(lerp(index)))]_vars

(* C10 witness: sounding, silent, sounding again: the third call sounds at
   440 Hz from the phase the first call left. *)
C10_Witness ==
    /\ pcA = "idle"
    /\ nsamples = 3
    /\ ~last.silent /\ last.freq = 440 /\ last.run = 1
    /\ last.before = IndexIncrement(440)

(* The input loop has been left: main is at line 244 or has returned. *)
LoopLeft == pcM \in {"disable", "returned"}

(* The loop reads the event at the head of the queue. *)
ReadsEvent(e) ==
    pcM = "read" /\ events # << >> /\ Head(events) = e /\ events' = Tail(events)

EscWaiting == \E i \in 1..Len(events) : events[i] = "Esc"

(* C11: reading Esc leaves the loop without a store, and nothing is stored
   after the loop is left; every other key event read is followed by exactly
   one store (one lock, assign, unlock) before the next poll; an Esc event
   that is delivered makes the loop terminate. *)
C11_CooperativeShutdown ==
    /\ [][ReadsEvent("Esc")
            => /\ pcM' = "disable"
               /\ UNCHANGED <<frequency, lock, pcI, nwrites>>]_vars
    /\ [][LoopLeft
            => /\ LoopLeft'
               /\ UNCHANGED <<frequency, pcI, nwrites>>]_vars
    /\ [][(\E k \in KeyCodes \ {"Esc"} : ReadsEvent(k))
            => (pcM' = "store" /\ nkeys' = nwrites + 1)]_vars
    /\ [](pcM \in {"store", "storing"} => nkeys = nwrites + 1)
    /\ [](pcM \in {"poll", "read", "sleep"} => nkeys = nwrites)
    /\ [](pcI # "idle" => pcM = "storing")
    /\ EscWaiting ~> LoopLeft

(* C11 witness: two keys were stored, then Esc was read and main returned
   Ok with nothing written since. *)
C11_Witness ==
    /\ pcM = "returned" /\ result = "Ok"
    /\ nkeys = 2 /\ nwrites = 2
    /\ lastWrite = frequency /\ frequency # 0

(* C12: a lock() that returns Err is fatal in both contexts: get_sample does
   not go on to produce a sample with the increment of an earlier call, and
   the input loop does not skip the store and continue. *)
C12_LockFailureFatal ==
    /\ lock_failed.audio => pcA \notin {"decide", "idle"}
    /\ lock_failed.input => pcM \notin {"poll", "read", "store", "storing", "sleep"}

(* C13: a key that is neither Esc nor in key_frequencies stores a value in
   the band 200 Hz .. 1200 Hz; a key of the table (';', line 165: 440.00)
   stores exactly its entry; the value the guard receives is that value. *)
C13_WrittenValue ==
    /\ [](pcM = "storing"
            => IF code = ";"
               THEN pending = 440
               ELSE pending >= 200 /\ pending <= 1200)
    /\ [][(pcM = "storing" /\ pcI = "locked" /\ pcI' = "assigned")
            => frequency' = pending]_vars

(* C13 witness: BackTab, which is not in the table, has stored 1196 Hz. *)
C13_Witness ==
    /\ pcM = "storing" /\ pcI = "assigned"
    /\ code = "BackTab"
    /\ frequency = 1196

(* floor of a phase, in table steps. *)
Floor(x) == x \div One

(* A sounding call returns. *)
SoundingReturn == pcA = "decide" /\ ~IsSilent(index_increment) /\ pcA' = "idle"

(* C14: a sounding call returns 0.3 * (table[i0]*(1-frac) + table[i1]*frac)
   with i0 = floor(phase), i1 = (i0+1) mod N and frac = phase - i0 taken from
   the phase before the advance; i1 is 0 at i0 = N-1; the phase afterwards is
   the old phase plus the increment, wrapped. *)
C14_Interpolation ==
    [][SoundingReturn
        => LET i0 == Floor(index)
               i1 == (i0 + 1) % TableLen
               frac == index - i0 * One
           IN  /\ last'.before = index
               /\ last'.i0 = i0
               /\ last'.i1 = i1
               /\ (i0 = TableLen - 1 => i1 = 0)
               /\ out' = Some(3 * (self_wave_table[i0 + 1] * (One - frac)
                                     + self_wave_table[i1 + 1] * frac))
               /\ Congruent(index', index + index_increment)]_vars

(* The context holds the guard of the mutex. *)
AudioHolds == pcA \in {"locked", "updated"}

InputHolds == pcI \in {"locked", "assigned"}

(* C15: the two contexts never hold the lock together; the audio critical
   section only reads the scalar and computes the increment, the input one
   only assigns the scalar; the lock is not held across poll, read, sleep or
   the interpolation; every acquisition is followed by a release, and a
   get_sample call that needs the lock eventually gets it. *)
C15_MutexNoDeadlock ==
    /\ [](~(AudioHolds /\ InputHolds))
    /\ []((lock = "audio") = AudioHolds)
    /\ []((lock = "input") = InputHolds)
    /\ [](InputHolds => pcM = "storing")
    /\ [](pcM \in {"poll", "read", "sleep"} => lock # "input")
    /\ [](pcA = "decide" => lock # "audio")
    /\ [][(AudioHolds /\ AudioHolds')
            => UNCHANGED <<frequency, index, out, nsamples>>]_vars
    /\ [][(pcI = "locked" /\ pcI' = "assigned")
            => (frequency' = pending /\ UNCHANGED <<index, index_increment>>)]_vars
    /\ (lock = "audio") ~> (lock # "audio")
    /\ (lock = "input") ~> (lock # "input")
    /\ (pcA = "idle" /\ nsamples < MainSamples) ~> AudioHolds

(* C15 witness: the audio context holds the lock while main, which has
   already completed a store, is about to lock for the next one. *)
C15_Witness ==
    /\ lock = "audio" /\ pcA = "updated"
    /\ pcM = "store" /\ nwrites >= 1
    /\ nsamples >= 1

(* C16: the wave table (contents and length) and sample_rate are in every
   reachable state what the constructor received; a step of get_sample
   leaves the shared frequency alone (of the oscillator's fields it changes
   at most index and index_increment), and a step of a frequency write
   changes neither index nor index_increment. *)
C16_Immutable ==
    /\ [](/\ self_wave_table = wave_table
          /\ Len(self_wave_table) = 64
          /\ self_sample_rate = sample_rate)
    /\ [][pcA' # pcA
            => UNCHANGED <<frequency, self_wave_table, self_sample_rate>>]_vars
    /\ [][pcI' # pcI
            => UNCHANGED <<index, index_increment, self_wave_table,
                           self_sample_rate>>]_vars

(* C16 witness: sounding calls and a completed write of 440 Hz have
   happened, the phase has moved. *)
C16_Witness ==
    /\ nsamples >= 2 /\ ~last.silent
    /\ lastWrite = 440 /\ frequency = 440
    /\ index # 0 /\ index_increment # 0
    /\ pcA = "idle" /\ pcI = "idle"

(* C17: in the complete program every value the input loop writes is
   strictly positive; a non-zero stored frequency never becomes 0 again, and
   it is non-zero once the first key other than Esc has been handled; a
   get_sample call that reads the frequency after that gets a positive
   increment, and only a call that read 0 takes the silent branch; the
   increment is never negative. *)
C17_SoundingAbsorbing ==
    /\ [](pcM = "storing" => pending > 0)
    /\ [](nwrites >= 1 => frequency > 0)
    /\ [][frequency # 0 => frequency' # 0]_vars
    /\ [][(UpdateStep /\ nwrites >= 1) => index_increment' > 0]_vars
    /\ [][(ReturnStep /\ last'.silent) => (freq_read = 0 /\ index_increment = 0)]_vars
    /\ [](index_increment >= 0)

(* C17 witness: a silent call, then BackTab stored the lowest fallback value
   (200 Hz), then a sounding call. *)
C17_Witness ==
    /\ nsamples = 2 /\ nwrites >= 1
    /\ last.freq = 200 /\ ~last.silent /\ last.run = 1
    /\ index = IndexIncrement(200)
    /\ pcA = "idle"

(* C18: whenever main has returned after enable_raw_mode succeeded, by the
   Esc break or by an error of event::poll or event::read, the terminal's
   raw mode has been disabled. *)
C18_RawModeRestored ==
    (pcM = "returned" /\ result \in {"Ok", "ErrPoll", "ErrRead"})
        => raw_mode = FALSE

====
